---- MODULE Spec2Model ----
(***************************************************************************)
(* Model of the 3D cluster view (threejs-page.tsx): the scene built from a *)
(* snapshot, the click handler, the highlight (blink) state kept in the    *)
(* module-level variables, the camera transitions and the gsap ticker.     *)
(*                                                                         *)
(* Units.  Lengths are in 1/240 of a scene unit (so that half a pod        *)
(* spacing, (4 - 0.15) / 6 / 2, is a whole number), emissive intensities   *)
(* and label scales in 1/20, times in 1/2 s, colours as 24-bit numbers.    *)
(***************************************************************************)
EXTENDS Integers, Sequences, FiniteSets, TLC

\* ------------------------------------------------------------------ bounds
\* Time between two frames of the gsap ticker, in 1/2 s.
Dt == 1
\* Camera transitions started in one run (clicks on objects plus resets).
MaxTransitions == 3
\* Camera tweens alive at the same time.
MaxCamTweens == 2
\* the machines of a store, the workloads of a machine and the pods of a
\* store of the loads explored
MaxNodes == 2
MaxPodsPerNode == 8
MaxStorePods == 3
\* the workloads of the most crowded machine explored
MaxCrowd == 43
\* the mounts of the page in a run
MaxMounts == 2
\* scroll offsets explored, in pixels, and timers set
MaxScroll == 1
MaxTimers == 3

\* --------------------------------------------------------------- constants
Unit == 240

NodeWidth == 4 * Unit
NodeHeight == 6 * Unit
NodeDepth == 4 * Unit
PodSize == (15 * Unit) \div 100
PodMaxPerRow == 6
PodSpacingX == (NodeWidth - PodSize) \div PodMaxPerRow
PodSpacingZ == (3 * Unit) \div 10
PodLift == (4 * Unit) \div 10

NodeColor == 49151              \* 0x00bfff
NodeEmissiveIntensity == 12     \* 0.6
PodEmissiveIntensity == 8       \* 0.4
BlinkColor == 16753920          \* 0xffa500
BlinkPeak == 30                 \* 1.5
BlinkDuration == 4              \* 2 s
CameraDuration == 3             \* 1.5 s
White == <<255, 255, 255>>
LabelBlinkColor == <<255, 210, 127>>        \* 0xFFD27F
LabelScale == <<10, 5, 2>>                  \* (0.5, 0.25, 0.1)
LabelExpandedScale == <<40, 20, 2>>         \* (2, 1, 0.1)
HomePosition == <<10 * Unit, 20 * Unit, 50 * Unit>>

\* "no value": null for an object reference, undefined for a stored value.
NoObject == <<"null", 0, 0>>
NoEntity == "null"
Undefined == << >>

\* ------------------------------------------------------------ the snapshot
\* The entity list handed to renderScene: one machine with two workloads and
\* one machine without any.
Snapshot ==
  << [name |-> "node-a",
      pods |-> << [name |-> "pod-1", status |-> "Running"],
                  [name |-> "pod-2", status |-> "Pending"] >>],
     [name |-> "node-b", pods |-> << >>] >>

Min(a, b) == IF a < b THEN a ELSE b

\* ---------------------------------------------------------------- layout
\* index and podIndex are the zero-based forEach indices of the source.
\* Mutant: the machines stand side by side, one machine width apart.
NodePosition_Packed(index) ==
  <<index * NodeWidth - 5 * Unit, NodeHeight \div 2, 0>>

NodePosition(index) ==
  <<index * NodeWidth * 2 - 5 * Unit, NodeHeight \div 2, 0>>

\* Mutant: every workload stands in the first row.
PodPosition_OneRow(index, podIndex, podCount) ==
  LET nodePosition == NodePosition(index)
      podColumn == podIndex % PodMaxPerRow
      totalRowWidth == PodSpacingX * (Min(PodMaxPerRow, podCount) - 1)
  IN  << nodePosition[1] - totalRowWidth \div 2 + PodSpacingX * podColumn,
         nodePosition[2] + NodeHeight \div 2 + PodLift,
         nodePosition[3] >>

PodPosition(index, podIndex, podCount) ==
  LET nodePosition == NodePosition(index)
      podRow == podIndex \div PodMaxPerRow
      podColumn == podIndex % PodMaxPerRow
      totalRowWidth == PodSpacingX * (Min(PodMaxPerRow, podCount) - 1)
  IN  << nodePosition[1] - totalRowWidth \div 2 + PodSpacingX * podColumn,
         nodePosition[2] + NodeHeight \div 2 + PodLift,
         nodePosition[3] + podRow * PodSpacingZ >>

\* Mutant: the colours of Pending and Failed are exchanged.
PodColor_Swapped(status) ==
  CASE status = "Running" -> 65280
    [] status = "Pending" -> 16729344
    [] status = "Failed"  -> 16766720
    [] OTHER              -> 11119017

PodColor(status) ==
  CASE status = "Running" -> 65280        \* 0x00ff00
    [] status = "Pending" -> 16766720     \* 0xFFD700
    [] status = "Failed"  -> 16729344     \* 0xFF4500
    [] OTHER              -> 11119017     \* 0xA9A9A9

\* ----------------------------------------------------------- scene objects
\* A scene object is <<kind, i, j>>: machine i (1-based position in the
\* snapshot), workload j of machine i, or a decoration.
NodeObj(i) == <<"node", i, 0>>
PodObj(i, j) == <<"pod", i, j>>
Ground == <<"ground", 0, 0>>
Grid == <<"grid", 0, 0>>
Particles == <<"particles", 0, 0>>
GlowOf(o) == <<"glow-" \o o[1], o[2], o[3]>>
LabelOf(o) == <<"label-" \o o[1], o[2], o[3]>>

Nodes == { NodeObj(i) : i \in 1..Len(Snapshot) }
Pods == UNION { { PodObj(i, j) : j \in 1..Len(Snapshot[i].pods) } : i \in 1..Len(Snapshot) }
Meshes == Nodes \cup Pods
Decorations == {Grid, Particles} \cup { GlowOf(o) : o \in Meshes } \cup { LabelOf(o) : o \in Meshes }
SceneChildren == Meshes \cup {Ground} \cup Decorations

\* userData of a scene object, as renderScene sets it.
IsNode(o) == o[1] = "node"
IsPod(o) == o[1] = "pod"
IsGround(o) == o[1] = "ground"
EntityOf(o) ==
  IF IsNode(o) THEN Snapshot[o[2]].name
  ELSE IF IsPod(o) THEN Snapshot[o[2]].pods[o[3]].name
  ELSE NoEntity
Position(o) ==
  IF IsNode(o) THEN NodePosition(o[2] - 1)
  ELSE PodPosition(o[2] - 1, o[3] - 1, Len(Snapshot[o[2]].pods))
BaseColor(o) ==
  IF IsNode(o) THEN NodeColor ELSE PodColor(Snapshot[o[2]].pods[o[3]].status)
BaseIntensity(o) ==
  IF IsNode(o) THEN NodeEmissiveIntensity ELSE PodEmissiveIntensity

\* ------------------------------------------------------------------ state
VARIABLES
  selectedNode,         \* React state selectedNode: an entity name or null
  selectedPod,          \* React state selectedPod
  currentBlinkingNode,  \* module-level holder of the machine highlight
  currentBlinkingPod,   \* module-level holder of the workload highlight
  currentLabelSprite,   \* module-level reference to the expanded label
  material,             \* mesh -> [color, emissive, emissiveIntensity]
  userData,             \* mesh -> the values blinkEffect stores on the object
  label,                \* workload label sprite -> [scale, color, originalScale]
  timeline,             \* gsap's live tweens, in creation order
  camera,               \* camera.position
  transitions,          \* camera transitions started so far
  pointer,              \* the ray of the last pointer event (objects hit, nearest first)
  cursor,               \* document.body.style.cursor
  cameraLook,           \* the point the camera is oriented at
  drawnLook,            \* the point the camera looked at in the last frame drawn
  frameTick,            \* number of frames renderer.render has drawn, modulo 2
  rafPending,           \* a requestAnimationFrame callback of animate is scheduled
  unmounted,            \* the effect cleanup has run
  mountChildren,        \* the children of the mount element, first to last
  storeNodes,           \* nodeStore.items
  storePods,            \* podStore.items
  nodes,                \* React state nodes: the entity list loadData built
  scene,                \* the objects renderScene added to the scene, in order
  loadError,            \* the exception loadData ended with, "" when none
  lifecycle,            \* the mounts so far and, of the current one, where its
                        \* loadData stands and the calls it has made
  scrollTimeout,        \* module-level: the timer the last scroll event set
  timers,               \* the host's pending timeouts of handleScroll
  iconStyle,            \* per mounted instance, the style of its div#camera-icon
  scrollOffset          \* per mounted instance, the mount element's
                        \* << scrollLeft, scrollTop >>

viewVars == << cursor, cameraLook, drawnLook, frameTick, rafPending, unmounted,
               mountChildren >>

dataVars == << storeNodes, storePods, nodes, scene, loadError, lifecycle >>

scrollVars == << scrollTimeout, timers, iconStyle, scrollOffset >>

vars == << selectedNode, selectedPod, currentBlinkingNode, currentBlinkingPod,
           currentLabelSprite, material, userData, label, timeline, camera,
           transitions, pointer, viewVars, dataVars, scrollVars >>

\* div#camera-icon as the JSX renders it: visible, not translated.
CameraIcon == [opacity |-> "1", transition |-> "", transform |-> << 0, 0 >>]

\* No scroll event has been handled yet.
Unscrolled ==
  /\ scrollTimeout = Undefined
  /\ timers = {}
  /\ iconStyle = << CameraIcon >>
  /\ scrollOffset = << << 0, 0 >> >>

PodLabels == { LabelOf(o) : o \in Pods }

\* The rays a pointer event can cast, each the sequence of scene objects it
\* crosses, nearest first (the outline of a mesh is 1.1 times its size, so a
\* ray meets it before the mesh).
Rays ==
  { << >>,
    << Ground >>,
    << Particles, Grid, Ground >>,
    << GlowOf(NodeObj(1)), NodeObj(1), Ground >>,
    << GlowOf(NodeObj(2)), NodeObj(2), Ground >>,
    << LabelOf(PodObj(1, 1)), GlowOf(PodObj(1, 1)), PodObj(1, 1), NodeObj(1), Ground >>,
    << PodObj(1, 2), GlowOf(NodeObj(1)), NodeObj(1), Ground >>,
    << Ground, NodeObj(1) >> }

\* The directions camera.getWorldDirection can return (unit vectors).
Directions == { <<0, 0, -1>>, <<0, -1, 0>> }

NoRay == << NoObject >>

\* ------------------------------------------------------------ loadData
\* An optional field is Undefined when absent and << value >> when present.
\* A store node is [name, labels, conditions, addresses, nodeInfo, capacity]
\* with labels a list of [key, value], conditions a list of [type, status]
\* and addresses a list of [type, address]; a store pod is
\* [name, nodeName, statusMessage, containerStatuses, containers] with
\* containerStatuses a list of [name, restartCount] and containers a list of
\* [name, requests, limits].

\* Array.prototype.find on the field that tells the elements apart.
Find(list, field, value) ==
  LET hits == SelectSeq(list, LAMBDA x : x[field] = value)
  IN  IF Len(hits) = 0 THEN Undefined ELSE << hits[1] >>

\* opt?.field || fallback, for a string field.
OrDefault(opt, field, fallback) ==
  IF opt = Undefined \/ opt[1][field] = "" THEN fallback ELSE opt[1][field]

RECURSIVE SumRestartCount(_)
SumRestartCount(statuses) ==
  IF Len(statuses) = 0 THEN 0
  ELSE statuses[1].restartCount + SumRestartCount(Tail(statuses))

\* pod.status.containerStatuses || []
ContainerStatuses(pod) ==
  IF pod.containerStatuses = Undefined THEN << >> ELSE pod.containerStatuses[1]

ContainerData(pod, container) ==
  LET found == Find(ContainerStatuses(pod), "name", container.name) IN
  [ name |-> container.name,
    cpuRequest |-> OrDefault(container.requests, "cpu", "N/A"),
    memoryRequest |-> OrDefault(container.requests, "memory", "N/A"),
    cpuLimit |-> OrDefault(container.limits, "cpu", "N/A"),
    memoryLimit |-> OrDefault(container.limits, "memory", "N/A"),
    restartCount |-> IF found = Undefined THEN 0 ELSE found[1].restartCount ]

PodData(pod) ==
  [ name |-> pod.name,
    status |-> pod.statusMessage,
    nodeName |-> pod.nodeName,
    restartCount |-> SumRestartCount(ContainerStatuses(pod)),
    containers |-> [c \in 1..Len(pod.containers) |->
                      ContainerData(pod, pod.containers[c])] ]

\* Mutant: the pods of a machine are all the pods that name a machine.
IsOnNode_Assigned(pod, nodeName) == pod.nodeName # Undefined

\* pod.spec.nodeName === nodeName
IsOnNode(pod, nodeName) == pod.nodeName = << nodeName >>

PodsOnNode(podItems, nodeName) ==
  LET onNode == SelectSeq(podItems, LAMBDA pod : IsOnNode(pod, nodeName))
  IN  [k \in 1..Len(onNode) |-> PodData(onNode[k])]

\* Mutant: a machine without a "Ready" condition takes its first condition.
NodeStatus_First(node) ==
  IF Len(node.conditions[1]) = 0 THEN "Unknown" ELSE node.conditions[1][1].status

NodeStatus(node) ==
  OrDefault(Find(node.conditions[1], "type", "Ready"), "status", "Unknown")

NodeRoles(node) ==
  LET role == Find(node.labels[1], "key", "kubernetes.io/role")
  IN  IF role = Undefined \/ role[1].value = "" THEN << "worker" >>
      ELSE << role[1].value >>

\* address of the first entry of the type, undefined when there is none
AddressOf(node, type) ==
  LET found == Find(node.addresses[1], "type", type)
  IN  IF found = Undefined THEN Undefined ELSE << found[1].address >>

\* The members the map callback reads of a value that is undefined: the read
\* throws a TypeError.
ReadsOfUndefined(node) ==
  { f \in {"conditions", "labels", "addresses", "nodeInfo"} : node[f] = Undefined }

NodeData(node, podItems) ==
  [ name |-> node.name,
    pods |-> PodsOnNode(podItems, node.name),
    status |-> NodeStatus(node),
    roles |-> NodeRoles(node),
    internalIP |-> AddressOf(node, "InternalIP"),
    externalIP |-> AddressOf(node, "ExternalIP"),
    kubeletVersion |-> node.nodeInfo[1].kubeletVersion,
    conditions |-> node.conditions[1],
    capacity |-> node.capacity,
    labels |-> node.labels[1] ]

\* nodeStore.items.map(...): the list of entities, in the order of the store.
FixedNodes(nodeItems, podItems) ==
  [i \in 1..Len(nodeItems) |-> NodeData(nodeItems[i], podItems)]

LoadThrows(nodeItems) ==
  \E i \in 1..Len(nodeItems) : ReadsOfUndefined(nodeItems[i]) # {}

\* ---------------------------------------------------------- renderScene
\* A scene object as renderScene creates it: its identity, the tag and the
\* entity of its userData, its position, its material and its label sprite.
SceneObject(id, tag, entity, position, mat, sprite) ==
  [id |-> id, tag |-> tag, entity |-> entity, position |-> position,
   material |-> mat, label |-> sprite]

Decoration(id, position) ==
  SceneObject(id, "none", Undefined, position, Undefined, NoObject)

StandardMaterial(color, intensity) ==
  << [color |-> color, emissive |-> color, emissiveIntensity |-> intensity] >>

Origin == <<0, 0, 0>>

\* What renderScene adds before the entities: the lights, the ground plane,
\* the grid and the particles.
Backdrop ==
  << Decoration(<<"light", 1, 0>>, Origin),
     Decoration(<<"light", 2, 0>>, <<5 * Unit, 15 * Unit, 10 * Unit>>),
     SceneObject(Ground, "ground", Undefined, Origin, Undefined, NoObject),
     Decoration(Grid, Origin),
     Decoration(Particles, Origin) >>

\* The cube of workload podIndex + 1 of machine index + 1, its outline and
\* its label.
PodObjects(node, index, podIndex) ==
  LET pod == node.pods[podIndex + 1]
      podCube == PodObj(index + 1, podIndex + 1)
      position == PodPosition(index, podIndex, Len(node.pods))
  IN  << SceneObject(podCube, "pod", << pod >>, position,
                     StandardMaterial(PodColor(pod.status), PodEmissiveIntensity),
                     LabelOf(podCube)),
         Decoration(GlowOf(podCube), position),
         Decoration(LabelOf(podCube),
                    << position[1], position[2] + Unit \div 20, position[3] >>) >>

\* Mutant: only the first row of workloads is drawn.
RECURSIVE PodsFrom_FirstRow(_, _, _)
PodsFrom_FirstRow(node, index, podIndex) ==
  IF podIndex >= Min(Len(node.pods), PodMaxPerRow) THEN << >>
  ELSE PodObjects(node, index, podIndex) \o PodsFrom_FirstRow(node, index, podIndex + 1)

\* node.pods.forEach from podIndex on.
RECURSIVE PodsFrom(_, _, _)
PodsFrom(node, index, podIndex) ==
  IF podIndex >= Len(node.pods) THEN << >>
  ELSE PodObjects(node, index, podIndex) \o PodsFrom(node, index, podIndex + 1)

\* The cube of machine index + 1, its outline and its label.
NodeObjects(node, index) ==
  LET nodeCube == NodeObj(index + 1)
      position == NodePosition(index)
  IN  << SceneObject(nodeCube, "node", << node >>, position,
                     StandardMaterial(NodeColor, NodeEmissiveIntensity), NoObject),
         Decoration(GlowOf(nodeCube), position),
         Decoration(LabelOf(nodeCube),
                    << position[1], position[2] - NodeHeight \div 2 - Unit \div 2,
                       position[3] + Unit \div 2 >>) >>

\* nodes.forEach from index on.
RECURSIVE NodesFrom(_, _)
NodesFrom(nodeList, index) ==
  IF index >= Len(nodeList) THEN << >>
  ELSE NodeObjects(nodeList[index + 1], index)
       \o PodsFrom(nodeList[index + 1], index, 0)
       \o NodesFrom(nodeList, index + 1)

RenderedScene(nodeList) == Backdrop \o NodesFrom(nodeList, 0)

\* The meshes of a scene and what renderScene leaves on them.
MeshesOf(s) == { s[k].id : k \in { n \in 1..Len(s) : s[n].tag \in {"node", "pod"} } }

ObjectOf(s, id) == s[CHOOSE k \in 1..Len(s) : s[k].id = id]

MaterialOf(s) == [o \in MeshesOf(s) |-> ObjectOf(s, o).material[1]]

UserDataOf(s) ==
  [o \in MeshesOf(s) |->
     [originalColor |-> ObjectOf(s, o).material[1].color,
      originalEmissiveColor |-> ObjectOf(s, o).material[1].emissive,
      originalEmissiveIntensity |-> Undefined, stopBlinkEffect |-> FALSE]]

LabelsOf(s) ==
  [l \in { ObjectOf(s, o).label : o \in { m \in MeshesOf(s) : IsPod(m) } } |->
     [scale |-> LabelScale, color |-> White, originalScale |-> Undefined]]

\* OrbitControls.target: the origin, which nothing in the code moves.
ControlsTarget == Origin

\* ------------------------------------------------------- the stores' items
PlainNode(name) ==
  [ name |-> name,
    labels |-> << << [key |-> "kubernetes.io/os", value |-> "linux"] >> >>,
    conditions |-> << << [type |-> "MemoryPressure", status |-> "False"],
                         [type |-> "Ready", status |-> "True"] >> >>,
    addresses |-> << << [type |-> "InternalIP", address |-> "10.0.0.1"] >> >>,
    nodeInfo |-> << [kubeletVersion |-> "v1.29.0"] >>,
    capacity |-> << [cpu |-> "4"] >> ]

PlainPod(name, nodeName, statusMessage) ==
  [ name |-> name, nodeName |-> nodeName, statusMessage |-> statusMessage,
    containerStatuses |-> << << [name |-> "main", restartCount |-> 0] >> >>,
    containers |-> << [name |-> "main", requests |-> << [cpu |-> "100m", memory |-> "64Mi"] >>,
                       limits |-> Undefined] >> ]

\* The items of which loadData builds Snapshot.
SnapshotNodeItems == << PlainNode("node-a"), PlainNode("node-b") >>

SnapshotPodItems ==
  << PlainPod("pod-1", << "node-a" >>, "Running"),
     PlainPod("pod-2", << "node-a" >>, "Pending") >>

NodeNameOf(i) == "node-" \o ToString(i)

\* The values the optional fields of a store node take.
LabelChoices ==
  { Undefined, << << >> >>,
    << << [key |-> "kubernetes.io/role", value |-> "master"] >> >>,
    << << [key |-> "kubernetes.io/os", value |-> "linux"],
          [key |-> "kubernetes.io/role", value |-> ""] >> >> }

ConditionChoices ==
  { Undefined, << << >> >>,
    << << [type |-> "Ready", status |-> "True"] >> >>,
    << << [type |-> "MemoryPressure", status |-> "True"],
          [type |-> "Ready", status |-> "False"] >> >>,
    << << [type |-> "DiskPressure", status |-> "False"] >> >> }

AddressChoices ==
  { Undefined,
    << << [type |-> "Hostname", address |-> "host"] >> >>,
    << << [type |-> "Hostname", address |-> "host"],
          [type |-> "InternalIP", address |-> "10.0.0.1"] >> >> }

NodeInfoChoices == { Undefined, << [kubeletVersion |-> "v1.29.0"] >> }

CapacityChoices == { Undefined, << [cpu |-> "4"] >> }

NodeShapes ==
  { [ name |-> NodeNameOf(1), labels |-> l, conditions |-> c, addresses |-> a,
      nodeInfo |-> v, capacity |-> k ] :
    l \in LabelChoices, c \in ConditionChoices, a \in AddressChoices,
    v \in NodeInfoChoices, k \in CapacityChoices }

\* The values the fields of a store pod take: the machine it names, and
\* its status message, container statuses and container resources.
NodeNameChoices ==
  { Undefined, << NodeNameOf(1) >>, << NodeNameOf(2) >>, << "node-x" >> }

PodShape(k, nodeName, variant) ==
  IF variant = 1 THEN
    [ name |-> "pod-" \o ToString(k), nodeName |-> nodeName,
      statusMessage |-> "Running", containerStatuses |-> Undefined,
      containers |-> << [name |-> "main", requests |-> Undefined,
                         limits |-> Undefined] >> ]
  ELSE
    [ name |-> "pod-" \o ToString(k), nodeName |-> nodeName,
      statusMessage |-> "Failed",
      containerStatuses |-> << << [name |-> "main", restartCount |-> 2],
                                  [name |-> "sidecar", restartCount |-> 3] >> >>,
      containers |-> << [name |-> "main",
                         requests |-> << [cpu |-> "100m", memory |-> ""] >>,
                         limits |-> << [cpu |-> "1", memory |-> "1Gi"] >>],
                        [name |-> "init", requests |-> Undefined,
                         limits |-> Undefined] >> ]

StatusMessages ==
  << "Running", "Pending", "Failed", "Succeeded", "Terminating", "running" >>

PlainNodes(n) == [i \in 1..n |-> PlainNode(NodeNameOf(i))]

\* The pods of a store in which machine i has counts[i] workloads, machine by
\* machine, the status messages taken in turn from StatusMessages.
RECURSIVE PodsByCount(_, _, _)
PodsByCount(counts, i, offset) ==
  IF i > Len(counts) THEN << >>
  ELSE [j \in 1..counts[i] |->
          PlainPod("pod-" \o ToString(i) \o "-" \o ToString(j), << NodeNameOf(i) >>,
                   StatusMessages[((j + offset) % Len(StatusMessages)) + 1])]
       \o PodsByCount(counts, i + 1, offset)

Init ==
  /\ selectedNode = NoEntity
  /\ selectedPod = NoEntity
  /\ currentBlinkingNode = NoObject
  /\ currentBlinkingPod = NoObject
  /\ currentLabelSprite = NoObject
  /\ material = [o \in Meshes |->
       [color |-> BaseColor(o), emissive |-> BaseColor(o),
        emissiveIntensity |-> BaseIntensity(o)]]
  /\ userData = [o \in Meshes |->
       [originalColor |-> BaseColor(o), originalEmissiveColor |-> BaseColor(o),
        originalEmissiveIntensity |-> Undefined, stopBlinkEffect |-> FALSE]]
  /\ label = [l \in PodLabels |->
       [scale |-> LabelScale, color |-> White, originalScale |-> Undefined]]
  /\ timeline = << >>
  /\ camera = HomePosition
  /\ transitions = 0
  /\ pointer = NoRay
  /\ cursor = ""
  /\ cameraLook = ControlsTarget
  /\ drawnLook = ControlsTarget
  /\ frameTick = 1
  /\ rafPending = TRUE
  /\ unmounted = FALSE
  /\ mountChildren = << "camera-icon", "canvas" >>
  /\ storeNodes = SnapshotNodeItems
  /\ storePods = SnapshotPodItems
  /\ nodes = FixedNodes(SnapshotNodeItems, SnapshotPodItems)
  /\ scene = RenderedScene(FixedNodes(SnapshotNodeItems, SnapshotPodItems))
  /\ loadError = ""
  /\ lifecycle = [mounts |-> 1, phase |-> "built", nodeLoads |-> 1,
                  podLoads |-> 1, builds |-> 1]
  /\ Unscrolled

\* The mounted view before loadData has built anything.
Unloaded ==
  /\ selectedNode = NoEntity
  /\ selectedPod = NoEntity
  /\ currentBlinkingNode = NoObject
  /\ currentBlinkingPod = NoObject
  /\ currentLabelSprite = NoObject
  /\ material = << >>
  /\ userData = << >>
  /\ label = << >>
  /\ timeline = << >>
  /\ camera = Undefined
  /\ transitions = 0
  /\ pointer = NoRay
  /\ cursor = ""
  /\ cameraLook = Undefined
  /\ drawnLook = Undefined
  /\ frameTick = 0
  /\ rafPending = FALSE
  /\ unmounted = FALSE
  /\ mountChildren = << "camera-icon" >>
  /\ nodes = << >>
  /\ scene = << >>
  /\ loadError = ""
  /\ Unscrolled

\* The stores of the loads explored: every shape of the first machine, every
\* assignment of a few pods, every count of workloads per machine, and one
\* machine with many workloads.
InitLoad ==
  /\ Unloaded
  /\ lifecycle = [mounts |-> 1, phase |-> "awaitPods", nodeLoads |-> 1,
                  podLoads |-> 1, builds |-> 0]
  /\ \/ \E shape \in NodeShapes, n \in 1..MaxNodes :
          /\ storeNodes = [i \in 1..n |-> IF i = 1 THEN shape ELSE PlainNode(NodeNameOf(i))]
          /\ storePods = << PodShape(1, << NodeNameOf(1) >>, 2),
                            PodShape(2, << NodeNameOf(1) >>, 1),
                            PodShape(3, Undefined, 1) >>
     \/ \E n \in 0..MaxNodes, m \in 0..MaxStorePods :
          \E names \in [1..m -> NodeNameChoices], variants \in [1..m -> 1..2] :
            /\ storeNodes = PlainNodes(n)
            /\ storePods = [k \in 1..m |-> PodShape(k, names[k], variants[k])]
     \/ \E n \in 0..MaxNodes, offset \in 0..(Len(StatusMessages) - 1) :
          \E counts \in [1..n -> 0..MaxPodsPerNode] :
            /\ storeNodes = PlainNodes(n)
            /\ storePods = PodsByCount(counts, 1, offset)
     \/ \E crowd \in (MaxPodsPerNode + 1)..MaxCrowd :
          /\ storeNodes = PlainNodes(1)
          /\ storePods = PodsByCount(<< crowd >>, 1, 0)

\* ------------------------------------------------------------------- gsap
Tween(kind, obj, to, lookAt, seq) ==
  [kind |-> kind, obj |-> obj, from |-> Undefined, to |-> to, time |-> 0,
   lookAt |-> lookAt, stop |-> (kind = "blink"), seq |-> seq]

KillTweensOf(tl, kind, obj) ==
  SelectSeq(tl, LAMBDA tw : ~(tw.kind = kind /\ tw.obj = obj))

Duration(kind) == IF kind = "camera" THEN CameraDuration ELSE BlinkDuration

\* "power2.inOut" at p / d, as a numerator over d^3.
EaseNum(p, d) ==
  IF 2 * p < d THEN 4 * p * p * p
  ELSE d * d * d - 4 * (d - p) * (d - p) * (d - p)

Interpolate(from, to, p, d) ==
  [k \in DOMAIN to |-> from[k] + ((to[k] - from[k]) * EaseNum(p, d)) \div (d * d * d)]

\* Progress of a tween `time` after its creation: a camera tween plays once,
\* a blink or label tween repeats for ever, every other iteration reversed.
Progress(kind, time) ==
  LET d == Duration(kind) IN
  IF kind = "camera" THEN Min(time, d)
  ELSE LET tt == time % (2 * d) IN IF tt <= d THEN tt ELSE 2 * d - tt

\* ---------------------------------------------------------------- highlight
\* The part of the state blinkEffect reads and writes, as one value.
World ==
  [currentBlinkingNode |-> currentBlinkingNode,
   currentBlinkingPod |-> currentBlinkingPod,
   currentLabelSprite |-> currentLabelSprite,
   material |-> material, userData |-> userData, label |-> label,
   timeline |-> timeline]

SetWorld(w) ==
  /\ currentBlinkingNode' = w.currentBlinkingNode
  /\ currentBlinkingPod' = w.currentBlinkingPod
  /\ currentLabelSprite' = w.currentLabelSprite
  /\ material' = w.material
  /\ userData' = w.userData
  /\ label' = w.label
  /\ timeline' = w.timeline

OrZero(v) == IF v = Undefined THEN 0 ELSE v[1]

\* Mutant: the restore leaves the emissive intensity where the tween put it.
Restored_KeepIntensity(w, o) ==
  [color |-> w.userData[o].originalColor,
   emissive |-> w.userData[o].originalEmissiveColor,
   emissiveIntensity |-> w.material[o].emissiveIntensity]

\* material.emissive/color/emissiveIntensity set back from the object's userData.
Restored(w, o) ==
  [color |-> w.userData[o].originalColor,
   emissive |-> w.userData[o].originalEmissiveColor,
   emissiveIntensity |-> OrZero(w.userData[o].originalEmissiveIntensity)]

\* Mutant: the label gets its scale and colour back but keeps its tween.
RestoreLabel_KeepTween(w) ==
  IF w.currentLabelSprite = NoObject THEN w
  ELSE LET l == w.currentLabelSprite
           originalScale == IF w.label[l].originalScale = Undefined
                            THEN LabelScale ELSE w.label[l].originalScale
       IN [w EXCEPT !.label[l].scale = originalScale,
                    !.label[l].color = White,
                    !.currentLabelSprite = NoObject]

RestoreLabel(w) ==
  IF w.currentLabelSprite = NoObject THEN w
  ELSE LET l == w.currentLabelSprite
           originalScale == IF w.label[l].originalScale = Undefined
                            THEN LabelScale ELSE w.label[l].originalScale
       IN [w EXCEPT !.label[l].scale = originalScale,
                    !.timeline = KillTweensOf(@, "label", l),
                    !.label[l].color = White,
                    !.currentLabelSprite = NoObject]

\* Mutant: the previous machine is restored but its tween is not killed.
ReleaseNode_KeepTween(w) ==
  IF w.currentBlinkingNode = NoObject THEN w
  ELSE LET o == w.currentBlinkingNode IN
       [w EXCEPT !.material[o] = Restored(w, o),
                 !.currentBlinkingNode = NoObject]

ReleaseNode(w) ==
  IF w.currentBlinkingNode = NoObject THEN w
  ELSE LET o == w.currentBlinkingNode IN
       [w EXCEPT !.timeline = KillTweensOf(@, "blink", o),
                 !.material[o] = Restored(w, o),
                 !.currentBlinkingNode = NoObject]

ReleasePod(w) ==
  IF w.currentBlinkingPod = NoObject THEN w
  ELSE LET o == w.currentBlinkingPod
           w1 == [w EXCEPT !.timeline = KillTweensOf(@, "blink", o),
                           !.material[o] = Restored(w, o)]
       IN [RestoreLabel(w1) EXCEPT !.currentBlinkingPod = NoObject]

\* Mutant: only the machine track is released (the workload block is missing).
ReleasePrevious_NodeOnly(w) == ReleaseNode(w)

\* Mutant: only the workload track is released (the machine block is missing).
ReleasePrevious_PodOnly(w) == ReleasePod(w)

ReleasePrevious(w) == ReleasePod(ReleaseNode(w))

TakeSnapshot(w, o) ==
  [w EXCEPT !.userData[o].originalEmissiveColor = w.material[o].emissive,
            !.userData[o].originalColor = w.material[o].color,
            !.userData[o].originalEmissiveIntensity = << w.material[o].emissiveIntensity >>]

\* gsap.to(material, ...): the new tween is the one the new stopBlinkEffect
\* closure captures, so an older tween of the object is no longer captured.
StartBlink(w, o) ==
  [w EXCEPT !.timeline =
      Append([i \in DOMAIN @ |->
                IF @[i].kind = "blink" /\ @[i].obj = o
                THEN [@[i] EXCEPT !.stop = FALSE] ELSE @[i]],
             Tween("blink", o, << BlinkPeak >>, Undefined, 0)),
            !.userData[o].stopBlinkEffect = TRUE]

ExpandLabel(w, o) ==
  LET l == LabelOf(o) IN
  [w EXCEPT !.label[l].originalScale =
              IF @ = Undefined THEN w.label[l].scale ELSE @,
            !.label[l].scale = LabelExpandedScale,
            !.currentLabelSprite = l,
            !.timeline = Append(@, Tween("label", l, LabelBlinkColor, Undefined, 0))]

\* Mutant: a workload is animated but not recorded as the holder.
SetHolder_NodeOnly(w, o) ==
  IF IsNode(o) THEN [w EXCEPT !.currentBlinkingNode = o] ELSE w

SetHolder(w, o) ==
  IF IsNode(o) THEN [w EXCEPT !.currentBlinkingNode = o]
  ELSE IF IsPod(o) THEN ExpandLabel([w EXCEPT !.currentBlinkingPod = o], o)
  ELSE w

\* Mutant: only the machine holder is recognised as already active.
IsHolder_NodeOnly(w, o) == o = w.currentBlinkingNode

IsHolder(w, o) == o = w.currentBlinkingNode \/ o = w.currentBlinkingPod

BlinkEffect(w, object) ==
  IF IsHolder(w, object) THEN w
  ELSE SetHolder(StartBlink(TakeSnapshot(ReleasePrevious(w), object), object), object)

\* ------------------------------------------------------------------ camera
Add(u, v) == [k \in DOMAIN u |-> u[k] + v[k]]

CameraTweens(tl) == SelectSeq(tl, LAMBDA tw : tw.kind = "camera")

\* No more than MaxTransitions transitions in a run, MaxCamTweens at a time.
MayStartTransition ==
  /\ transitions < MaxTransitions
  /\ Len(CameraTweens(timeline)) < MaxCamTweens

\* Mutant: the transition frames the centre of the machine, not its top face.
NodeTopPosition_Centre(o) == Position(o)

\* The centre of the top face of a machine, as handleClick computes it.
NodeTopPosition(o) == Add(Position(o), <<0, NodeHeight \div 2, 0>>)

ZoomToNodeTop(position, seq) ==
  Tween("camera", NoObject, Add(position, <<5 * Unit, 5 * Unit, 10 * Unit>>),
        position, seq)

ZoomToPod(position, direction, seq) ==
  LET newCameraPosition == Add(position, [k \in 1..3 |-> (0 - 3) * Unit * direction[k]])
  IN Tween("camera", NoObject, Add(newCameraPosition, <<0, Unit, 0>>), position, seq)

\* Mutant: the reset interchanges the y and z coordinates of the home position.
ResetTween_Swapped(seq) ==
  Tween("camera", NoObject, <<10 * Unit, 50 * Unit, 20 * Unit>>, Undefined, seq)

ResetTween(seq) == Tween("camera", NoObject, HomePosition, Undefined, seq)

\* ------------------------------------------------------------------ picking
\* Mutant: every child of the scene is a click target.
IsClickTarget_All(o) == TRUE

IsClickTarget(o) == IsNode(o) \/ IsPod(o) \/ IsGround(o)

Intersects(ray) == SelectSeq(ray, IsClickTarget)

\* Mutant: a click on a machine leaves the selected workload as it is.
ClickNode_KeepPod(clickedObject) ==
  /\ MayStartTransition
  /\ selectedNode' = EntityOf(clickedObject)
  /\ transitions' = transitions + 1
  /\ LET w == BlinkEffect(World, clickedObject) IN
     SetWorld([w EXCEPT !.timeline =
        Append(@, ZoomToNodeTop(NodeTopPosition(clickedObject), transitions + 1))])
  /\ UNCHANGED << camera, selectedPod >>

ClickNode(clickedObject) ==
  /\ MayStartTransition
  /\ selectedNode' = EntityOf(clickedObject)
  /\ selectedPod' = NoEntity
  /\ transitions' = transitions + 1
  /\ LET w == BlinkEffect(World, clickedObject) IN
     SetWorld([w EXCEPT !.timeline =
        Append(@, ZoomToNodeTop(NodeTopPosition(clickedObject), transitions + 1))])
  /\ UNCHANGED camera

ClickPod(clickedObject) ==
  /\ MayStartTransition
  /\ selectedPod' = EntityOf(clickedObject)
  /\ selectedNode' = NoEntity
  /\ transitions' = transitions + 1
  /\ \E direction \in Directions :
       LET w == BlinkEffect(World, clickedObject) IN
       SetWorld([w EXCEPT !.timeline =
          Append(@, ZoomToPod(Position(clickedObject), direction, transitions + 1))])
  /\ UNCHANGED camera

\* Mutant: a click that selects nothing clears the selection.
ClickNothing_Deselect ==
  /\ selectedNode' = NoEntity
  /\ selectedPod' = NoEntity
  /\ UNCHANGED << currentBlinkingNode, currentBlinkingPod, currentLabelSprite,
                  material, userData, label, timeline, camera, transitions >>

ClickNothing ==
  UNCHANGED << selectedNode, selectedPod, currentBlinkingNode, currentBlinkingPod,
               currentLabelSprite, material, userData, label, timeline, camera,
               transitions >>

HandleClick(ray) ==
  LET intersects == Intersects(ray) IN
  /\ ~unmounted
  /\ lifecycle.phase = "built"
  /\ pointer' = ray
  /\ UNCHANGED << viewVars, dataVars, scrollVars >>
  /\ IF Len(intersects) > 0 /\ IsNode(intersects[1]) THEN ClickNode(intersects[1])
     ELSE IF Len(intersects) > 0 /\ IsPod(intersects[1]) THEN ClickPod(intersects[1])
     ELSE ClickNothing

ResetCameraPosition ==
  /\ ~unmounted
  /\ lifecycle.phase = "built"
  /\ MayStartTransition
  /\ timeline' = Append(timeline, ResetTween(transitions + 1))
  /\ transitions' = transitions + 1
  /\ UNCHANGED << selectedNode, selectedPod, currentBlinkingNode, currentBlinkingPod,
                  currentLabelSprite, material, userData, label, camera, pointer,
                  viewVars, dataVars, scrollVars >>

\* ------------------------------------------------------------- gsap ticker
\* One frame: every live tween, in creation order, reads its start value on
\* its first render and writes the interpolated value to its target; a
\* camera tween that has run its duration ends. The onUpdate of a camera
\* tween runs controls.update(), which points the camera at the control's
\* target, and then, for a zoom, camera.lookAt(targetPosition).
RenderTween(st, tw) ==
  LET time == tw.time + Dt
      current == IF tw.kind = "camera" THEN st.camera
                 ELSE IF tw.kind = "blink"
                      THEN << st.material[tw.obj].emissiveIntensity >>
                      ELSE st.label[tw.obj].color
      from == IF tw.from = Undefined THEN current ELSE tw.from
      value == Interpolate(from, tw.to, Progress(tw.kind, time), Duration(tw.kind))
      next == [tw EXCEPT !.from = from,
                         !.time = IF tw.kind = "camera" THEN time
                                  ELSE time % (2 * Duration(tw.kind))]
  IN  IF tw.kind = "camera"
      THEN [st EXCEPT !.camera = value,
                      !.look = IF tw.lookAt = Undefined THEN ControlsTarget
                               ELSE tw.lookAt,
                      !.timeline = IF time >= CameraDuration THEN @ ELSE Append(@, next)]
      ELSE IF tw.kind = "blink"
      THEN [st EXCEPT !.material[tw.obj].emissiveIntensity = value[1],
                      !.material[tw.obj].emissive = BlinkColor,
                      !.timeline = Append(@, next)]
      ELSE [st EXCEPT !.label[tw.obj].color = value,
                      !.timeline = Append(@, next)]

RECURSIVE RenderAll(_, _, _)
RenderAll(tl, i, st) ==
  IF i > Len(tl) THEN st ELSE RenderAll(tl, i + 1, RenderTween(st, tl[i]))

Tick ==
  LET st == RenderAll(timeline, 1,
              [camera |-> camera, look |-> cameraLook, material |-> material,
               label |-> label, timeline |-> << >>])
  IN  /\ camera' = st.camera
      /\ cameraLook' = st.look
      /\ material' = st.material
      /\ label' = st.label
      /\ timeline' = st.timeline
      /\ UNCHANGED << selectedNode, selectedPod, currentBlinkingNode,
                      currentBlinkingPod, currentLabelSprite, userData,
                      transitions, pointer, cursor, drawnLook, frameTick,
                      rafPending, unmounted, mountChildren, dataVars, scrollVars >>

\* ------------------------------------------------------------------ release
\* object.userData.stopBlinkEffect(), once blinkEffect has installed it.
StopBlinkEffect(o) ==
  /\ userData[o].stopBlinkEffect
  /\ LET w1 == [World EXCEPT
                  !.timeline = SelectSeq(@, LAMBDA tw :
                                 ~(tw.kind = "blink" /\ tw.obj = o /\ tw.stop)),
                  !.material[o] = Restored(World, o)]
     IN SetWorld(RestoreLabel(w1))
  /\ UNCHANGED << selectedNode, selectedPod, camera, transitions, pointer,
                  viewVars, dataVars, scrollVars >>

\* ------------------------------------------------------------ pointer move
\* Mutant: the ground counts as something to hover over, as it does for a click.
IsHoverTarget_Click(o) == IsClickTarget(o)

IsHoverTarget(o) == IsNode(o) \/ IsPod(o)

HandleMouseMove(ray) ==
  LET intersects == SelectSeq(ray, IsHoverTarget) IN
  /\ ~unmounted
  /\ lifecycle.phase = "built"
  /\ pointer' = ray
  /\ cursor' = IF Len(intersects) > 0 THEN "pointer" ELSE "auto"
  /\ UNCHANGED << selectedNode, selectedPod, currentBlinkingNode, currentBlinkingPod,
                  currentLabelSprite, material, userData, label, timeline, camera,
                  transitions, cameraLook, drawnLook, frameTick, rafPending,
                  unmounted, mountChildren, dataVars, scrollVars >>

\* -------------------------------------------------------------- render loop
\* One run of animate: it schedules itself again, lets the orbit control
\* update the camera, which points it at the control's target, and draws
\* the frame.
Animate ==
  /\ rafPending
  /\ rafPending' = TRUE
  /\ cameraLook' = ControlsTarget
  /\ drawnLook' = ControlsTarget
  /\ frameTick' = (frameTick + 1) % 2
  /\ UNCHANGED << selectedNode, selectedPod, currentBlinkingNode, currentBlinkingPod,
                  currentLabelSprite, material, userData, label, timeline, camera,
                  transitions, pointer, cursor, unmounted, mountChildren, dataVars,
                  scrollVars >>

\* ------------------------------------------------------------------ teardown
\* The cleanup of the effect. React has either left the mount element in the
\* ref, and its first child is removed, or has cleared the ref, and the
\* cleanup throws before it removes anything.
Teardown ==
  /\ ~unmounted
  /\ unmounted' = TRUE
  /\ \E attached \in BOOLEAN :
       mountChildren' = IF attached THEN Tail(mountChildren) ELSE mountChildren
  /\ UNCHANGED << selectedNode, selectedPod, currentBlinkingNode, currentBlinkingPod,
                  currentLabelSprite, material, userData, label, timeline, camera,
                  transitions, pointer, cursor, cameraLook, drawnLook, frameTick,
                  rafPending, dataVars, scrollVars >>

\* ------------------------------------------------------------------ loadData
\* Mutant: the entity list is built as soon as the machines have arrived.
MayBuild_Early == lifecycle.phase \in {"awaitNodes", "awaitPods"}

\* loadData continues after await podStore.loadAll().
MayBuild == lifecycle.phase = "awaitPods"

\* The continuation of loadData after await nodeStore.loadAll(): it calls
\* podStore.loadAll() and waits for it.
NodesLoaded ==
  /\ lifecycle.phase = "awaitNodes"
  /\ lifecycle' = [lifecycle EXCEPT !.phase = "awaitPods", !.podLoads = @ + 1]
  /\ UNCHANGED << selectedNode, selectedPod, currentBlinkingNode, currentBlinkingPod,
                  currentLabelSprite, material, userData, label, timeline, camera,
                  transitions, pointer, viewVars, storeNodes, storePods, nodes,
                  scene, loadError, scrollVars >>

\* The continuation of loadData once both stores have answered: the entity
\* list is built, stored and rendered. Building it throws when it reads a
\* member of an absent field; renderScene throws at appendChild, before it
\* has added anything to the scene, when the view has been unmounted and
\* React has cleared the ref of the mount element. The objects of the new
\* scene join those earlier instances have left behind.
LoadData ==
  /\ MayBuild
  /\ IF LoadThrows(storeNodes) \/ unmounted
     THEN /\ loadError' = "TypeError"
          /\ lifecycle' = [lifecycle EXCEPT !.phase = "failed"]
          /\ UNCHANGED << material, userData, label, camera, cameraLook, drawnLook,
                          frameTick, rafPending, mountChildren, nodes, scene >>
     ELSE LET fixedNodes == FixedNodes(storeNodes, storePods)
              built == RenderedScene(fixedNodes)
          IN  /\ nodes' = fixedNodes
              /\ scene' = built
              /\ material' = MaterialOf(built) @@ material
              /\ userData' = UserDataOf(built) @@ userData
              /\ label' = LabelsOf(built) @@ label
              /\ camera' = HomePosition
              /\ mountChildren' = Append(mountChildren, "canvas")
              /\ cameraLook' = ControlsTarget
              /\ drawnLook' = ControlsTarget
              /\ frameTick' = (frameTick + 1) % 2
              /\ rafPending' = TRUE
              /\ loadError' = ""
              /\ lifecycle' = [lifecycle EXCEPT !.phase = "built", !.builds = @ + 1]
  /\ UNCHANGED << selectedNode, selectedPod, currentBlinkingNode, currentBlinkingPod,
                  currentLabelSprite, timeline, transitions, pointer, cursor,
                  unmounted, storeNodes, storePods, scrollVars >>

\* -------------------------------------------------------------------- mount
\* An object of the scene of an earlier instance of the page.
Stale(o) == IF o = NoObject THEN NoObject ELSE << "stale-" \o o[1], o[2], o[3] >>

StaleMap(f) == [o \in { Stale(x) : x \in DOMAIN f } |->
                  f[CHOOSE x \in DOMAIN f : Stale(x) = o]]

\* The page is mounted again after an unmount: a new instance with fresh
\* React state, refs and mount element, whose effect calls loadData, which
\* calls nodeStore.loadAll() and waits for it. The module-level holders, the
\* cursor of the document and gsap's tweens are not per instance: they stay,
\* and the objects they refer to are those of the earlier scene. The tweens
\* of the earlier camera, which nothing of the new instance reads, are no
\* longer followed, nor is what is left of the earlier instance's loadData,
\* which ends in the TypeError of LoadData, nor its render loop. The timer
\* of the last scroll stays pending, the new instance has its own mount
\* element, not scrolled, and its own icon.
Mount ==
  /\ unmounted
  /\ lifecycle.mounts < MaxMounts
  /\ lifecycle' = [mounts |-> lifecycle.mounts + 1, phase |-> "awaitNodes",
                   nodeLoads |-> 1, podLoads |-> 0, builds |-> 0]
  /\ selectedNode' = NoEntity
  /\ selectedPod' = NoEntity
  /\ currentBlinkingNode' = Stale(currentBlinkingNode)
  /\ currentBlinkingPod' = Stale(currentBlinkingPod)
  /\ currentLabelSprite' = Stale(currentLabelSprite)
  /\ material' = StaleMap(material)
  /\ userData' = StaleMap(userData)
  /\ label' = StaleMap(label)
  /\ timeline' = LET kept == SelectSeq(timeline, LAMBDA tw : tw.kind # "camera")
                 IN  [k \in 1..Len(kept) |-> [kept[k] EXCEPT !.obj = Stale(@)]]
  /\ camera' = Undefined
  /\ cameraLook' = Undefined
  /\ drawnLook' = Undefined
  /\ frameTick' = 0
  /\ rafPending' = FALSE
  /\ unmounted' = FALSE
  /\ mountChildren' = << "camera-icon" >>
  /\ nodes' = << >>
  /\ scene' = << >>
  /\ loadError' = ""
  /\ pointer' = NoRay
  /\ iconStyle' = Append(iconStyle, CameraIcon)
  /\ scrollOffset' = Append(scrollOffset, << 0, 0 >>)
  /\ UNCHANGED << cursor, transitions, storeNodes, storePods, scrollTimeout, timers >>

\* ------------------------------------------------------------------ scroll
\* Mutant: the timer of the scroll before is left pending.
ClearTimeout_Keep(pending, id) == pending

\* clearTimeout(id): the pending timeout of that id, if there is one, is
\* cancelled.
ClearTimeout(pending, id) == { t \in pending : << t.id >> # id }

\* The scroll offsets a scroll event may find on the mount element.
ScrollOffsets == (0..MaxScroll) \X (0..MaxScroll)

\* handleScroll for a scroll event that finds the mount element scrolled to
\* scrollLeft, scrollTop: the icon of the mounted instance, which is the
\* element document.getElementById finds, is hidden, the timer of the scroll
\* before is cleared and a new one is set, whose callback keeps the icon and
\* the two offsets.
HandleScroll(scrollLeft, scrollTop) ==
  LET icon == lifecycle.mounts
      id == IF scrollTimeout = Undefined THEN 1 ELSE scrollTimeout[1] + 1
      cleared == IF scrollTimeout # Undefined
                 THEN ClearTimeout(timers, scrollTimeout)
                 ELSE timers
  IN  /\ ~unmounted
      /\ id <= MaxTimers
      /\ scrollOffset' = [scrollOffset EXCEPT ![icon] = << scrollLeft, scrollTop >>]
      /\ iconStyle' = [iconStyle EXCEPT ![icon].transition = "", ![icon].opacity = "0"]
      /\ timers' = cleared \cup { [id |-> id, icon |-> icon, scrollLeft |-> scrollLeft,
                                   scrollTop |-> scrollTop] }
      /\ scrollTimeout' = << id >>
      /\ UNCHANGED << selectedNode, selectedPod, currentBlinkingNode, currentBlinkingPod,
                      currentLabelSprite, material, userData, label, timeline, camera,
                      transitions, pointer, viewVars, dataVars >>

\* The callback of a pending timeout runs: the icon it keeps is translated by
\* the offsets it keeps and shown again. scrollTimeout keeps the timer's id.
RedisplayIcon(t) ==
  /\ t \in timers
  /\ timers' = timers \ { t }
  /\ iconStyle' = [iconStyle EXCEPT
                     ![t.icon] = [transform |-> << t.scrollLeft, t.scrollTop >>,
                                  transition |-> "opacity 0.3s ease",
                                  opacity |-> "1"]]
  /\ UNCHANGED << selectedNode, selectedPod, currentBlinkingNode, currentBlinkingPod,
                  currentLabelSprite, material, userData, label, timeline, camera,
                  transitions, pointer, viewVars, dataVars, scrollTimeout,
                  scrollOffset >>

\* ----------------------------------------------------------- specifications
Click == \E ray \in Rays : HandleClick(ray)

Release == \E o \in Meshes : StopBlinkEffect(o)

Next == Click \/ Tick \/ ResetCameraPosition

Spec == Init /\ [][Next]_vars

NextRelease == Click \/ Tick \/ ResetCameraPosition \/ Release

SpecRelease == Init /\ [][NextRelease]_vars

\* The rays of the clicks of FairSpec: one on a machine, one on a workload.
ZoomRays ==
  { << GlowOf(NodeObj(1)), NodeObj(1), Ground >>,
    << PodObj(1, 2), GlowOf(NodeObj(1)), NodeObj(1), Ground >> }

ZoomClick == \E ray \in ZoomRays : HandleClick(ray)

NextFair == ZoomClick \/ Tick \/ ResetCameraPosition

\* The ticker runs on every animation frame.
FairSpec == Init /\ [][NextFair]_vars /\ WF_vars(Tick)

MouseMove == \E ray \in Rays : HandleMouseMove(ray)

\* The rays of the clicks of SpecPointer: those of FairSpec and one that
\* meets the ground before a machine (the camera orbited below the ground).
PointerRays == ZoomRays \cup { << Ground, NodeObj(1) >> }

PointerClick == \E ray \in PointerRays : HandleClick(ray)

NextPointer == PointerClick \/ MouseMove \/ Tick \/ ResetCameraPosition

\* A few clicks with the pointer moving over the scene.
SpecPointer == Init /\ [][NextPointer]_vars

NextView == ZoomClick \/ Tick \/ ResetCameraPosition \/ Animate \/ Teardown

\* The view from its first frame to after its teardown: the render loop and
\* the ticker run on every animation frame.
SpecView == Init /\ [][NextView]_vars /\ WF_vars(Animate) /\ WF_vars(Tick)

\* The page just mounted for the first time: loadData has called
\* nodeStore.loadAll() and waits for it.
InitMount ==
  /\ Unloaded
  /\ storeNodes = SnapshotNodeItems
  /\ storePods = SnapshotPodItems
  /\ lifecycle = [mounts |-> 1, phase |-> "awaitNodes", nodeLoads |-> 1,
                  podLoads |-> 0, builds |-> 0]

NextMount ==
  NodesLoaded \/ LoadData \/ ZoomClick \/ Tick \/ Animate \/ Teardown \/ Mount

\* The page from its mount on, through unmounts and further mounts.
SpecMount ==
  InitMount /\ [][NextMount]_vars /\ WF_vars(Animate) /\ WF_vars(Tick)

Scroll == \E offsets \in ScrollOffsets : HandleScroll(offsets[1], offsets[2])

TimerFires == \E t \in timers : RedisplayIcon(t)

NextScroll == Scroll \/ TimerFires \/ Teardown \/ Mount

\* The scroll events of the page and their timers, through unmounts and
\* further mounts. A pending timeout fires in the end.
SpecScroll == Init /\ [][NextScroll]_vars /\ WF_vars(TimerFires)

\* The load of a view, from the stores' items to the scene.
SpecLoad == InitLoad /\ [][LoadData]_vars

\* ------------------------------------------------------------------ claims
\* An object's blink animation is active when a tween on its material is alive.
Blinking(o) ==
  \E i \in DOMAIN timeline : timeline[i].kind = "blink" /\ timeline[i].obj = o

Highlighted(o) == Blinking(o) \/ material[o].emissive = BlinkColor

\* The appearance the scene builder gave an object.
BaseMaterial(o) ==
  [color |-> BaseColor(o), emissive |-> BaseColor(o),
   emissiveIntensity |-> BaseIntensity(o)]

\* The snapshot stored on an object by its last activation.
StoredSnapshot(o) ==
  [color |-> userData[o].originalColor,
   emissive |-> userData[o].originalEmissiveColor,
   emissiveIntensity |-> userData[o].originalEmissiveIntensity]

HighlightTweens == SelectSeq(timeline, LAMBDA tw : tw.kind # "camera")

\* The nearest object of a ray that carries a machine, workload or ground tag.
TaggedHits(ray) ==
  SelectSeq(ray, LAMBDA o : o[1] \in {"node", "pod", "ground"})

\* C1: within one kind at most one object is highlighted (has a live blink
\* tween or shows the highlight emissive colour), in every state that clicks
\* and frames can reach: the previous holder is released inside the
\* activation itself.
C1_HighlightExclusive ==
  /\ Cardinality({ o \in Nodes : Highlighted(o) }) <= 1
  /\ Cardinality({ o \in Pods : Highlighted(o) }) <= 1

\* Machine 2 shows the highlight colour after machine 1 had been activated.
C1_Witness ==
  /\ userData[NodeObj(1)].stopBlinkEffect
  /\ currentBlinkingNode = NodeObj(2)
  /\ material[NodeObj(2)].emissive = BlinkColor
  /\ Blinking(NodeObj(2))

\* C2: from the activation of O's highlight to its end the stored snapshot is
\* the material O had when it was activated, and when the highlight ends
\* (superseded, or released by stopBlinkEffect) O's colour, emissive colour
\* and emissive intensity are exactly that snapshot.
C2_RestoredOnEnd ==
  [][\A o \in Meshes :
       /\ (~Blinking(o) /\ Blinking(o)') =>
            StoredSnapshot(o)' = [material[o] EXCEPT !.emissiveIntensity = << @ >>]
       /\ (Blinking(o) /\ Blinking(o)') => StoredSnapshot(o)' = StoredSnapshot(o)
       /\ (Blinking(o) /\ ~Blinking(o)') =>
            material'[o] = [StoredSnapshot(o) EXCEPT !.emissiveIntensity = @[1]]
    ]_vars

\* Machine 1 was superseded by workload 1, whose highlight ran its frames and
\* was then released by its stopBlinkEffect: both are back to their base look.
C2_Witness ==
  /\ userData[NodeObj(1)].stopBlinkEffect
  /\ currentBlinkingNode = NoObject
  /\ currentBlinkingPod = PodObj(1, 1)
  /\ ~Blinking(PodObj(1, 1))
  /\ transitions = 2
  /\ CameraTweens(timeline) = << >>
  /\ material[PodObj(1, 1)] = BaseMaterial(PodObj(1, 1))
  /\ material[NodeObj(1)] = BaseMaterial(NodeObj(1))

\* C3: a click on the object that already holds the highlight changes nothing
\* of the highlight: no blink or label tween is killed, created or restarted,
\* and snapshot, holders, materials and labels stay as they were.
C3_ReclickNoOp ==
  [][\A ray \in Rays :
       (/\ HandleClick(ray)
        /\ TaggedHits(ray) # << >>
        /\ TaggedHits(ray)[1] \in {currentBlinkingNode, currentBlinkingPod})
       => /\ UNCHANGED << currentBlinkingNode, currentBlinkingPod,
                          currentLabelSprite, material, userData, label >>
          /\ HighlightTweens' = HighlightTweens
    ]_vars

\* Two clicks on machine 1 with a frame between them: its blink tween, started
\* by the first click, is still the one running after the second.
C3_Witness ==
  /\ currentBlinkingNode = NodeObj(1)
  /\ \E i, j \in DOMAIN timeline :
       /\ i < j
       /\ timeline[i].kind = "blink" /\ timeline[i].obj = NodeObj(1)
       /\ timeline[i].from # Undefined
       /\ timeline[j].kind = "camera" /\ timeline[j].seq = 2
       /\ timeline[j].lookAt = NodeTopPosition(NodeObj(1))
       /\ timeline[j].from = Undefined
  /\ \A o \in Meshes \ {NodeObj(1)} : ~userData[o].stopBlinkEffect

\* A step that makes a machine (a workload) the new holder of its kind.
NodeActivated ==
  currentBlinkingNode' # currentBlinkingNode /\ currentBlinkingNode' # NoObject

PodActivated ==
  currentBlinkingPod' # currentBlinkingPod /\ currentBlinkingPod' # NoObject

\* C4, as claimed: activating a highlight of one kind leaves the holder of the
\* other kind, its animation and its appearance as they were.
C4_IndependentTracks ==
  [][/\ NodeActivated =>
          /\ currentBlinkingPod' = currentBlinkingPod
          /\ \A o \in Pods : material'[o] = material[o] /\ (Blinking(o)' <=> Blinking(o))
     /\ PodActivated =>
          /\ currentBlinkingNode' = currentBlinkingNode
          /\ \A o \in Nodes : material'[o] = material[o] /\ (Blinking(o)' <=> Blinking(o))
    ]_vars

\* C4, amended: activating a highlight of one kind releases the holder of the
\* other kind as well: its holder reference is cleared, no object of that
\* kind keeps a blink tween and the former holder's material is its snapshot.
C4_ActivationEvictsOtherKind ==
  [][/\ NodeActivated =>
          /\ currentBlinkingPod' = NoObject
          /\ \A o \in Pods : ~Blinking(o)'
          /\ currentBlinkingPod # NoObject =>
               material'[currentBlinkingPod] =
                 [StoredSnapshot(currentBlinkingPod) EXCEPT !.emissiveIntensity = @[1]]
     /\ PodActivated =>
          /\ currentBlinkingNode' = NoObject
          /\ \A o \in Nodes : ~Blinking(o)'
          /\ currentBlinkingNode # NoObject =>
               material'[currentBlinkingNode] =
                 [StoredSnapshot(currentBlinkingNode) EXCEPT !.emissiveIntensity = @[1]]
    ]_vars

\* The k-th camera transition is alive, frames `to` target and has (not) been
\* rendered yet.
LiveTransition(k, target, rendered) ==
  \E i \in DOMAIN timeline :
    /\ timeline[i].kind = "camera" /\ timeline[i].seq = k
    /\ timeline[i].lookAt = target
    /\ (timeline[i].from # Undefined) <=> rendered

\* Workload 1 was clicked, a frame passed, then machine 1 was clicked: the
\* machine holds the highlight and the workload is released.
C4_Witness ==
  /\ LiveTransition(1, Position(PodObj(1, 1)), TRUE)
  /\ LiveTransition(2, NodeTopPosition(NodeObj(1)), FALSE)
  /\ currentBlinkingNode = NodeObj(1)
  /\ Blinking(NodeObj(1))
  /\ currentBlinkingPod = NoObject
  /\ material[PodObj(1, 1)] = BaseMaterial(PodObj(1, 1))

\* C5: a machine highlight and a workload highlight are never active
\* together: never two holders, never a highlighted machine with a
\* highlighted workload, and an object that is not a holder shows the
\* appearance it had before its highlight.
C5_NeverBothKinds ==
  /\ ~(currentBlinkingNode # NoObject /\ currentBlinkingPod # NoObject)
  /\ ~(\E n \in Nodes, p \in Pods : Highlighted(n) /\ Highlighted(p))
  /\ \A o \in Meshes :
       o \notin {currentBlinkingNode, currentBlinkingPod} =>
         ~Blinking(o) /\ material[o] = BaseMaterial(o)

\* Machine 1 was clicked, a frame passed, then workload 1 was clicked: only the
\* workload holder is set and the machine is back to its base appearance.
C5_Witness ==
  /\ LiveTransition(1, NodeTopPosition(NodeObj(1)), TRUE)
  /\ LiveTransition(2, Position(PodObj(1, 1)), FALSE)
  /\ currentBlinkingPod = PodObj(1, 1)
  /\ Blinking(PodObj(1, 1))
  /\ currentBlinkingNode = NoObject
  /\ selectedPod = "pod-1" /\ selectedNode = NoEntity
  /\ material[NodeObj(1)] = BaseMaterial(NodeObj(1))

\* The step starts a camera transition that looks at `target`.
StartsTransition(target) ==
  /\ Len(timeline') > 0
  /\ LET tw == timeline'[Len(timeline')] IN
       /\ tw.kind = "camera" /\ tw.seq = transitions + 1 /\ tw.from = Undefined
       /\ tw.lookAt = target
  /\ Len(CameraTweens(timeline')) = Len(CameraTweens(timeline)) + 1

\* C6: a click whose nearest hit is a machine selects its entity, clears the
\* selected workload, makes the object the highlighted holder and starts a
\* transition that looks at the centre of the machine's top face; a click
\* whose nearest hit is a workload does the same with the kinds exchanged and
\* looks at the workload's position.
C6_ClickSelects ==
  [][\A ray \in Rays :
       (HandleClick(ray) /\ TaggedHits(ray) # << >>) =>
         LET hit == TaggedHits(ray)[1] IN
         /\ hit \in Nodes =>
              /\ selectedNode' = Snapshot[hit[2]].name
              /\ selectedPod' = NoEntity
              /\ currentBlinkingNode' = hit
              /\ Blinking(hit)'
              /\ StartsTransition(<< Position(hit)[1],
                                     Position(hit)[2] + NodeHeight \div 2,
                                     Position(hit)[3] >>)
         /\ hit \in Pods =>
              /\ selectedPod' = Snapshot[hit[2]].pods[hit[3]].name
              /\ selectedNode' = NoEntity
              /\ currentBlinkingPod' = hit
              /\ Blinking(hit)'
              /\ StartsTransition(Position(hit))
    ]_vars

\* Machine 2 was clicked after workload 2 had been selected.
C6_Witness ==
  /\ pointer = << GlowOf(NodeObj(2)), NodeObj(2), Ground >>
  /\ userData[PodObj(1, 2)].stopBlinkEffect
  /\ selectedNode = "node-b" /\ selectedPod = NoEntity
  /\ currentBlinkingNode = NodeObj(2) /\ Blinking(NodeObj(2))
  /\ LiveTransition(2, << 3 * Unit, 6 * Unit, 0 >>, FALSE)

\* C7: a click that hits nothing, or whose nearest hit is the ground, leaves
\* selection, holders, animations, appearance and camera as they were.
C7_MissChangesNothing ==
  [][\A ray \in Rays :
       (/\ HandleClick(ray)
        /\ (TaggedHits(ray) = << >> \/ TaggedHits(ray)[1] = Ground))
       => UNCHANGED << selectedNode, selectedPod, currentBlinkingNode,
                       currentBlinkingPod, currentLabelSprite, material, userData,
                       label, timeline, camera, transitions >>
    ]_vars

\* Workload 2 was clicked and then the ground: the selection is still there.
C7_Witness ==
  /\ pointer = << Ground >>
  /\ selectedPod = "pod-2" /\ selectedNode = NoEntity
  /\ currentBlinkingPod = PodObj(1, 2) /\ Blinking(PodObj(1, 2))
  /\ LiveTransition(1, Position(PodObj(1, 2)), FALSE)

\* C8: decorations are no pick targets: when a decoration is the nearest
\* object on the ray, the click is decided by the nearest machine, workload
\* or ground behind it.
C8_DecorationsTransparent ==
  [][\A ray \in Rays :
       (/\ HandleClick(ray)
        /\ TaggedHits(ray) # << >>
        /\ ray[1] \in Decorations)
       => LET hit == TaggedHits(ray)[1] IN
          /\ hit[1] = "node" => selectedNode' = EntityOf(hit) /\ currentBlinkingNode' = hit
          /\ hit[1] = "pod" => selectedPod' = EntityOf(hit) /\ currentBlinkingPod' = hit
          /\ hit[1] = "ground" =>
               UNCHANGED << selectedNode, selectedPod, currentBlinkingNode,
                            currentBlinkingPod >>
    ]_vars

\* Workload 1 was selected by a ray that meets its label and outline first.
C8_Witness ==
  /\ Len(pointer) > 2
  /\ pointer[1] = LabelOf(PodObj(1, 1))
  /\ pointer[2] = GlowOf(PodObj(1, 1))
  /\ selectedPod = "pod-1"
  /\ currentBlinkingPod = PodObj(1, 1)
  /\ transitions = 1

\* C9, as claimed: a transition started while another is in flight cancels it
\* before its own first frame, so a later camera tween is never rendered
\* while an earlier one is alive.
C9_OneTransitionInFlight ==
  ~ \E i, j \in DOMAIN timeline :
      /\ i < j
      /\ timeline[i].kind = "camera" /\ timeline[j].kind = "camera"
      /\ timeline[j].from # Undefined

\* The transition started last is alive and is a reset (a zoom): a reset
\* tween has no look-at target.
LatestIsLiveReset ==
  \E i \in DOMAIN timeline :
    /\ timeline[i].kind = "camera" /\ timeline[i].seq = transitions
    /\ timeline[i].lookAt = Undefined

LatestIsLiveZoom ==
  \E i \in DOMAIN timeline :
    /\ timeline[i].kind = "camera" /\ timeline[i].seq = transitions
    /\ timeline[i].lookAt # Undefined

\* C10: after a reset, whatever is selected or highlighted and whatever
\* transition is in flight, the camera eventually is at the home position
\* (10, 20, 50), unless a zoom is started after the reset.
C10_ResetReachesHome ==
  LatestIsLiveReset ~>
    (camera = <<10 * Unit, 20 * Unit, 50 * Unit>> \/ LatestIsLiveZoom)

\* A zoom to machine 1 and then a reset have both ended: the camera is home
\* while machine 1 is still selected and highlighted.
C10_Witness ==
  /\ transitions = 2
  /\ CameraTweens(timeline) = << >>
  /\ camera = <<10 * Unit, 20 * Unit, 50 * Unit>>
  /\ selectedNode = "node-a"
  /\ Blinking(NodeObj(1))

\* C11: once the view is torn down the render loop has stopped: no run of
\* animate is scheduled and no further frame is drawn.
C11_LoopStopsAfterTeardown ==
  /\ [](unmounted => ~rafPending)
  /\ [][unmounted => frameTick' = frameTick]_vars

\* The objects of the scene that carry a machine tag, a workload tag.
MachineObjects == { scene[k] : k \in { n \in 1..Len(scene) : scene[n].tag = "node" } }

WorkloadObjects == { scene[k] : k \in { n \in 1..Len(scene) : scene[n].tag = "pod" } }

\* The workload objects of machine i in row r (both as the scene numbers them:
\* machines from 1, rows from 0).
RowOf(i, r) ==
  { o \in WorkloadObjects : o.id[2] = i /\ (o.id[3] - 1) \div PodMaxPerRow = r }

\* C12: workload i of a machine stands in row floor(i / 6), column i mod 6,
\* and the x-positions of the workloads of every row, a partly filled last
\* row included, are symmetric about the machine's x-coordinate.
C12_RowsCentred ==
  \A o \in WorkloadObjects :
    LET machine == ObjectOf(scene, NodeObj(o.id[2]))
        podIndex == o.id[3] - 1
        row == RowOf(o.id[2], podIndex \div PodMaxPerRow)
        first == CHOOSE f \in row : (f.id[3] - 1) % PodMaxPerRow = 0
    IN  /\ o.position[3] = machine.position[3] + (podIndex \div PodMaxPerRow) * PodSpacingZ
        /\ o.position[1] = first.position[1] + (podIndex % PodMaxPerRow) * PodSpacingX
        /\ \E mirror \in row :
             mirror.position[1] - machine.position[1]
               = machine.position[1] - o.position[1]

\* C13: the machines stand in input order along x, each twice the machine
\* width after the one before it, at half the machine height and at z = 0,
\* and where machine i stands depends on i alone: it is where it stands in the
\* scene of i machines without workloads.
C13_MachinePitch ==
  \A o \in MachineObjects :
    LET i == o.id[2] IN
    /\ o.entity = << nodes[i] >>
    /\ o.position[2] * 2 = NodeHeight
    /\ o.position[3] = 0
    /\ i > 1 =>
         LET before == CHOOSE b \in MachineObjects : b.entity = << nodes[i - 1] >>
         IN  /\ o.position[1] - before.position[1] = 2 * NodeWidth
             /\ o.position[1] > before.position[1]
    /\ o.position =
         ObjectOf(RenderedScene(FixedNodes(PlainNodes(i), << >>)), NodeObj(i)).position

C13_Witness ==
  /\ Len(scene) > 0
  /\ Len(nodes) = 2
  /\ Len(nodes[1].pods) = 7
  /\ Len(nodes[2].pods) = 3

\* The positions in the scene of the objects of a tag that refer to an entity.
ObjectsFor(tag, entity) ==
  { k \in 1..Len(scene) : scene[k].tag = tag /\ scene[k].entity = << entity >> }

\* C14: the scene holds one machine object for every machine of the snapshot
\* and one workload object for every workload of every machine, each with its
\* own entity as back-reference, and no other machine or workload object.
C14_OneObjectPerEntity ==
  /\ Cardinality(MachineObjects) = Len(nodes)
  /\ \A i \in 1..Len(nodes) :
       /\ Cardinality(ObjectsFor("node", nodes[i])) = 1
       /\ Cardinality({ o \in WorkloadObjects : o.id[2] = i }) = Len(nodes[i].pods)
       /\ \A j \in 1..Len(nodes[i].pods) :
            Cardinality(ObjectsFor("pod", nodes[i].pods[j])) = 1

C14_Witness ==
  /\ Len(scene) > 0
  /\ Len(nodes) = 2
  /\ Len(nodes[1].pods) = 8
  /\ Len(nodes[2].pods) = 0
  /\ Cardinality(WorkloadObjects) = 8

\* C18: a workload object is green when its status is Running, amber when
\* Pending, red-orange when Failed and gray for every other status.
C18_ColourOfStatus ==
  \A o \in WorkloadObjects :
    LET status == o.entity[1].status
        colour == o.material[1].color
    IN  /\ status = "Running" => colour = 65280
        /\ status = "Pending" => colour = 16766720
        /\ status = "Failed" => colour = 16729344
        /\ status \notin {"Running", "Pending", "Failed"} => colour = 11119017

C18_Witness ==
  \A status \in {"Running", "Pending", "Failed", "Succeeded", "running"} :
    \E o \in WorkloadObjects : o.entity[1].status = status

\* loadData has built and rendered the entity list.
Loaded == Len(scene) > 0

\* The names of all the workloads the entity list holds.
PlacedNames ==
  UNION { { nodes[i].pods[j].name : j \in 1..Len(nodes[i].pods) } : i \in 1..Len(nodes) }

StorePod(name) == storePods[CHOOSE k \in 1..Len(storePods) : storePods[k].name = name]

StoreIndex(name) == CHOOSE k \in 1..Len(storePods) : storePods[k].name = name

\* C15: a built machine holds the store's pods that name it, each once and in
\* the order of the store, and no other; a pod that names no machine of the
\* store, or none at all, is under no machine.
C15_PodsOfTheirMachine ==
  Loaded =>
    /\ \A i \in 1..Len(nodes) :
         LET pods == nodes[i].pods IN
         /\ nodes[i].name = storeNodes[i].name
         /\ \A j \in 1..Len(pods) :
              StorePod(pods[j].name).nodeName = << nodes[i].name >>
         /\ \A k \in 1..Len(storePods) :
              storePods[k].nodeName = << nodes[i].name >> =>
                Cardinality({ j \in 1..Len(pods) : pods[j].name = storePods[k].name }) = 1
         /\ \A j1, j2 \in 1..Len(pods) :
              j1 < j2 => StoreIndex(pods[j1].name) < StoreIndex(pods[j2].name)
    /\ \A k \in 1..Len(storePods) :
         (\A i \in 1..Len(storeNodes) : storePods[k].nodeName # << storeNodes[i].name >>)
           => storePods[k].name \notin PlacedNames

C15_Witness ==
  /\ Loaded
  /\ Len(nodes) = 2
  /\ Len(storePods) = 3
  /\ storePods[1].nodeName = << NodeNameOf(2) >>
  /\ storePods[2].nodeName = Undefined
  /\ storePods[3].nodeName = << "node-x" >>
  /\ Len(nodes[1].pods) = 0
  /\ Len(nodes[2].pods) = 1

\* The entries of a list of records whose field has the value.
Having(list, field, value) == { k \in 1..Len(list) : list[k][field] = value }

\* C16: a built machine has the status of its condition of type "Ready", or
\* "Unknown" when it has none, and the role of its role label, or "worker"
\* when it has none; a built workload has as restart count the sum of the
\* restart counts of its container statuses, 0 when it has none.
C16_DerivedFields ==
  Loaded =>
    \A i \in 1..Len(nodes) :
      LET conditions == storeNodes[i].conditions[1]
          labels == storeNodes[i].labels[1]
          ready == Having(conditions, "type", "Ready")
          role == Having(labels, "key", "kubernetes.io/role")
      IN  /\ ready # {} => \E k \in ready : nodes[i].status = conditions[k].status
          /\ ready = {} => nodes[i].status = "Unknown"
          /\ \A k \in role : labels[k].value # "" => nodes[i].roles = << labels[k].value >>
          /\ role = {} => nodes[i].roles = << "worker" >>
          /\ \A j \in 1..Len(nodes[i].pods) :
               LET pod == StorePod(nodes[i].pods[j].name) IN
               nodes[i].pods[j].restartCount =
                 IF pod.containerStatuses = Undefined THEN 0
                 ELSE SumRestartCount(pod.containerStatuses[1])

C16_Witness ==
  /\ Loaded
  /\ Having(storeNodes[1].conditions[1], "type", "Ready") = {}
  /\ Len(storeNodes[1].conditions[1]) = 1
  /\ nodes[1].status = "Unknown"
  /\ nodes[1].roles = << "master" >>
  /\ nodes[1].pods[1].restartCount = 5
  /\ nodes[1].pods[2].restartCount = 0
  /\ Len(nodes) = 2
  /\ nodes[2].status = "True"
  /\ nodes[2].roles = << "worker" >>

\* C17: building the entity list never fails: whatever optional field of a
\* machine or of a container is absent, the load ends without an error.
C17_NeverFails == loadError = ""

\* C19: a pointer move sets the cursor to "pointer" when its ray crosses a
\* machine or a workload and to "auto" when it crosses none, whatever the
\* state, and leaves the selection, the highlight holders, the highlights
\* and the camera as they are.
C19_MoveSetsCursorOnly ==
  [][\A ray \in Rays :
       HandleMouseMove(ray) =>
         /\ cursor' = IF \E k \in 1..Len(ray) : ray[k][1] \in {"node", "pod"}
                      THEN "pointer" ELSE "auto"
         /\ UNCHANGED << selectedNode, selectedPod, currentBlinkingNode,
                         currentBlinkingPod, currentLabelSprite, material, label,
                         timeline, camera, cameraLook >>]_vars

C19_Witness ==
  /\ cursor = "auto"
  /\ pointer = << Ground >>
  /\ selectedPod = "pod-2"
  /\ currentBlinkingPod = PodObj(1, 2)
  /\ Len(CameraTweens(timeline)) = 1

\* A single camera transition is in flight, it frames a target and the ticker
\* has rendered it at least once.
FramingInFlight ==
  LET cams == CameraTweens(timeline) IN
  /\ Len(cams) = 1
  /\ cams[1].lookAt # Undefined
  /\ cams[1].from # Undefined

\* C20: every frame the render loop draws while a transition framing a
\* target is in flight shows the camera looking at that target.
C20_FramesLookAtTarget ==
  [][(FramingInFlight /\ frameTick' # frameTick) =>
       drawnLook' = CameraTweens(timeline)[1].lookAt]_vars

\* The colour animations alive on a label.
LabelTweens(l) ==
  SelectSeq(timeline, LAMBDA tw : tw.kind = "label" /\ tw.obj = l)

\* C22: the label of the workload that holds the highlight has the expanded
\* scale (2, 1, 0.1) and one colour animation; the label of every other
\* workload, one whose highlight was superseded included, has its scale of
\* before the expansion, is white and has no animation.
C22_LabelFollowsHighlight ==
  \A o \in Pods :
    IF o = currentBlinkingPod
    THEN /\ label[LabelOf(o)].scale = LabelExpandedScale
         /\ Len(LabelTweens(LabelOf(o))) = 1
         /\ LabelTweens(LabelOf(o))[1].to = LabelBlinkColor
    ELSE /\ label[LabelOf(o)].scale = LabelScale
         /\ label[LabelOf(o)].color = White
         /\ Len(LabelTweens(LabelOf(o))) = 0

\* Workload 2 holds the highlight after workload 1 had held it and its label
\* had been expanded.
C22_Witness ==
  /\ currentBlinkingPod = PodObj(1, 2)
  /\ label[LabelOf(PodObj(1, 2))].color # White
  /\ userData[PodObj(1, 1)].stopBlinkEffect
  /\ label[LabelOf(PodObj(1, 1))].originalScale = LabelScale
  /\ label[LabelOf(PodObj(1, 1))].scale = LabelScale

\* C26: an object is the holder of its kind exactly when a blink animation
\* is alive on its material, also after stopBlinkEffect has been called.
C26_HolderIffBlinking ==
  \A o \in Meshes :
    (o = currentBlinkingNode \/ o = currentBlinkingPod) <=> Blinking(o)

\* C27: the stopBlinkEffect of an object leaves the label of every other
\* workload, and the animations on it, as they are.
C27_ReleaseTouchesOwnLabel ==
  [][\A o \in Meshes :
       StopBlinkEffect(o) =>
         \A p \in Pods \ {o} :
           /\ label'[LabelOf(p)] = label[LabelOf(p)]
           /\ Len(SelectSeq(timeline', LAMBDA tw : tw.kind = "label" /\ tw.obj = LabelOf(p)))
                = Len(LabelTweens(LabelOf(p)))]_vars

\* C28: no state has a selected machine and a selected workload.
C28_OneSelection == ~(selectedNode # NoEntity /\ selectedPod # NoEntity)

\* A workload is selected after a machine had been selected.
C28_Witness ==
  /\ selectedPod = "pod-1"
  /\ selectedNode = NoEntity
  /\ userData[NodeObj(1)].stopBlinkEffect
  /\ transitions = 2

\* C29: there is a machine holder exactly when a machine is selected, and it
\* is the object of the selected machine; likewise for the workload holder
\* and the selected workload.
C29_SelectionIsHolder ==
  /\ (currentBlinkingNode # NoObject) <=> (selectedNode # NoEntity)
  /\ currentBlinkingNode # NoObject =>
       IsNode(currentBlinkingNode) /\ EntityOf(currentBlinkingNode) = selectedNode
  /\ (currentBlinkingPod # NoObject) <=> (selectedPod # NoEntity)
  /\ currentBlinkingPod # NoObject =>
       IsPod(currentBlinkingPod) /\ EntityOf(currentBlinkingPod) = selectedPod

\* Machine 2 is selected and holds the highlight after a workload had.
C29_Witness ==
  /\ selectedNode = "node-b"
  /\ currentBlinkingNode = NodeObj(2)
  /\ currentBlinkingPod = NoObject
  /\ userData[PodObj(1, 2)].stopBlinkEffect

\* A click on the ray that selects a machine or a workload the ray crosses
\* and starts a transition.
SelectingClick(ray) ==
  /\ HandleClick(ray)
  /\ transitions' = transitions + 1
  /\ \E k \in 1..Len(ray) :
       \/ IsNode(ray[k]) /\ selectedNode' = EntityOf(ray[k])
       \/ IsPod(ray[k]) /\ selectedPod' = EntityOf(ray[k])

\* C30: where the last pointer move set the "pointer" cursor, a click on the
\* same ray, when the view takes clicks, selects a machine or a workload.
C30_HoverImpliesSelect ==
  \A ray \in Rays :
    (cursor = "pointer" /\ pointer = ray /\ ENABLED HandleClick(ray))
      => ENABLED SelectingClick(ray)

\* C25: every workload object is above the top face of its machine and its
\* x and z lie within the machine's box: no further from the machine's
\* centre than half its width and half its depth.
C25_WithinFootprint ==
  \A o \in WorkloadObjects :
    LET machine == ObjectOf(scene, NodeObj(o.id[2]))
        dx == o.position[1] - machine.position[1]
        dz == o.position[3] - machine.position[3]
    IN  /\ 2 * dx <= NodeWidth /\ 2 * dx >= -NodeWidth
        /\ 2 * dz <= NodeDepth /\ 2 * dz >= -NodeDepth
        /\ o.position[2] > machine.position[2] + NodeHeight \div 2

\* C21: in every mount the machines are loaded once, the workloads once and
\* only after the machines have arrived, the scene is built once and only
\* after both have arrived, and a frame is drawn, or a run of animate
\* scheduled, only when the scene holds every object of the entity list.
C21_LoadOnceThenBuild ==
  /\ lifecycle.nodeLoads = 1
  /\ lifecycle.podLoads <= 1
  /\ lifecycle.builds <= 1
  /\ lifecycle.podLoads = 1 <=> lifecycle.phase # "awaitNodes"
  /\ lifecycle.builds = 1 => lifecycle.podLoads = 1 /\ lifecycle.phase = "built"
  /\ Len(scene) > 0 => lifecycle.builds = 1
  /\ (rafPending \/ drawnLook # Undefined) =>
       /\ lifecycle.builds = 1
       /\ scene = RenderedScene(nodes)
       /\ nodes = FixedNodes(storeNodes, storePods)

\* The second mount has built its scene and its render loop has drawn a
\* second frame.
C21_Witness ==
  /\ lifecycle.mounts = 2
  /\ lifecycle.phase = "built"
  /\ lifecycle.builds = 1
  /\ frameTick = 0

\* An object of the scene of an earlier instance.
IsStale(o) == o \notin Meshes \cup PodLabels \cup {NoObject}

\* C23: an instance that has not built its scene yet has no machine holder,
\* no workload holder and no expanded label, and no click changes the
\* material or the label of an object of an earlier instance's scene.
C23_InstanceOwnsHighlight ==
  /\ [](lifecycle.phase # "built" =>
          /\ currentBlinkingNode = NoObject
          /\ currentBlinkingPod = NoObject
          /\ currentLabelSprite = NoObject)
  /\ [][transitions' # transitions =>
          /\ \A o \in DOMAIN material : IsStale(o) => material'[o] = material[o]
          /\ \A l \in DOMAIN label : IsStale(l) => label'[l] = label[l]]_vars

\* C24: the cleanup removes the canvas renderScene appended from the mount
\* element and leaves the camera-reset icon in it.
C24_TeardownRemovesCanvas ==
  [][(~unmounted /\ unmounted' /\ mountChildren = << "camera-icon", "canvas" >>)
       => mountChildren' = << "camera-icon" >>]_vars

\* C31: the layout is injective: no two machine objects stand at the same
\* position, and no two workload objects, of one machine or of different
\* machines, stand at the same position.
C31_LayoutInjective ==
  /\ \A a \in MachineObjects : \A b \in MachineObjects :
       a.position = b.position => a.id = b.id
  /\ \A a \in WorkloadObjects : \A b \in WorkloadObjects :
       a.position = b.position => a.id = b.id

C31_Witness ==
  /\ Cardinality(MachineObjects) = 2
  /\ Cardinality({ o \in WorkloadObjects : o.id[2] = 1 }) = 8
  /\ Cardinality({ o \in WorkloadObjects : o.id[2] = 2 }) = 7

\* C32: when the view is torn down while loadData still waits for the
\* machines or the workloads, the continuation that runs afterwards builds
\* no scene, registers no pointer listeners, starts no render loop and
\* raises no error.
C32_LateLoadIsInert ==
  [][(unmounted /\ LoadData) =>
       /\ scene' = scene
       /\ mountChildren' = mountChildren
       /\ lifecycle'.phase # "built"
       /\ ~rafPending'
       /\ frameTick' = frameTick
       /\ loadError' = ""]_vars

\* What of C32 the continuation does keep to: everything but the error.
C32_LateLoadBuildsNothing ==
  [][(unmounted /\ LoadData) =>
       /\ scene' = scene
       /\ mountChildren' = mountChildren
       /\ lifecycle'.phase # "built"
       /\ ~rafPending'
       /\ frameTick' = frameTick]_vars

\* C33: at most one icon-redisplay timer is pending at a time; every scroll
\* event hides the camera-reset icon; and when the timer of the last scroll
\* fires, the icon is visible again, with opacity 1, and translated by the
\* scroll offsets of that scroll event, which are those the mount element
\* still has.
C33_IconFollowsLastScroll ==
  /\ [](Cardinality(timers) <= 1)
  /\ [](\A t \in timers : << t.id >> = scrollTimeout)
  /\ [][\A offsets \in ScrollOffsets :
          HandleScroll(offsets[1], offsets[2])
            => iconStyle'[lifecycle.mounts].opacity = "0"]_vars
  /\ [][\A t \in timers :
          RedisplayIcon(t)
            => /\ iconStyle'[t.icon].opacity = "1"
               /\ iconStyle'[t.icon].transform = scrollOffset[t.icon]
               /\ timers' = {}]_vars

\* The timer of the third scroll of the second mounted instance has fired
\* and has moved the icon.
C33_Witness ==
  /\ lifecycle.mounts = 2
  /\ scrollTimeout = << 3 >>
  /\ timers = {}
  /\ iconStyle[2] = [opacity |-> "1", transition |-> "opacity 0.3s ease",
                     transform |-> << 1, 0 >>]
  /\ iconStyle[1].opacity = "0"

====
